---------------------------- MODULE Spec2Model ----------------------------
(***************************************************************************)
(* Path selection (pruning) strategies of SOL: choose_rand,                *)
(* k_shortest_paths, select_ilp, select_iterative and select_sa, over the  *)
(* per-traffic-class path masks of a PPTC.                                 *)
(*                                                                         *)
(* A numpy array is a sequence; position p of the sequence is the python   *)
(* index p - 1.  Index arrays (argsort results) hold python indices, that  *)
(* is values 0 .. n-1, because select_sa later reads such an array as if   *)
(* it were a mask and its values 0 and 1 then matter.  A mask entry 0      *)
(* means the path is visible, any other value means it is hidden.          *)
(***************************************************************************)
EXTENDS Integers, Sequences, FiniteSets, TLC

\* ------------------------------------------------------------------ bounds
\* Largest number of candidate paths of a traffic class (k_shortest_paths,
\* choose_rand).
MaxPaths == 3
\* Largest number of candidate paths of the first traffic class there.
MaxPathsFirst == 1
\* Path lengths (node counts) are drawn from 1 .. MaxLen.
MaxLen == 2
\* num_paths (k) is drawn from 0 .. MaxK.
MaxK == 3

\* The traffic classes of the merged PPTC.
TCs == {1, 2}

VARIABLES
    pc,         \* position of the running selector
    lens,       \* lens[tc][p]: len() of candidate path p of traffic class tc
    num_paths,  \* the argument num_paths (k)
    pmask,      \* pmask[tc]: the mask the PPTC holds for tc (0 visible, 1 hidden)
    inds,       \* the dict k_shortest_paths returns: tc -> argsort array
    err,        \* the exception a selector ended with ("none" while none)
    \* select_ilp
    num_nodes,  \* topo.num_nodes()
    debug,      \* the argument debug
    calls,      \* the calls made on the composed optimization, in order
    ret,        \* what the selector returned (<<>> while nothing)
    \* select_iterative (max_iter and opt also select_sa)
    max_iter,   \* the argument max_iter
    epsilon,    \* the argument epsilon
    sort_mode,  \* the argument sort_mode
    iter_i,     \* the local i of select_iterative
    iter_k,     \* the local k of select_iterative
    diff,       \* the local diff
    old_val,    \* the local old_val
    mp,         \* the local mp = all_pptc.max_paths(all=True)
    opt,        \* the local opt: the current optimization (NoOpt while unbound)
    \* select_sa
    expel_mode,   \* the argument expel_mode
    replace_mode, \* the argument replace_mode
    heap,         \* heap[tc]: the arrays allocated for the masks of tc, by identity
    explored,     \* explored[tc]: the list of arrays (identities in heap[tc])
    bestpaths,    \* bestpaths[tc]: an array (identity in heap[tc]; 0 for None)
    bestopt,      \* the local bestopt
    sa_k,         \* the local k of select_sa (iteration number)
    pathtrees,    \* pathtrees[tc]: the PathTree of tc (NoTree for None)
    \* a single call of one of the helper functions
    args,         \* the arguments of the call (a record; <<>> while none)
    result        \* what the call left or raised (a record; <<>> while none)

pptcVars == <<lens, num_paths, pmask, inds>>

ilpVars == <<num_nodes, debug, calls, ret>>

iterVars == <<max_iter, epsilon, sort_mode, iter_i, iter_k, diff, old_val, mp, opt>>

saVars == <<expel_mode, replace_mode, heap, explored, bestpaths, bestopt, sa_k, pathtrees>>

callVars == <<args, result>>

vars == <<pc, err, pptcVars, ilpVars, iterVars, saVars, callVars>>

\* ----------------------------------------------------------------- helpers
Min(a, b) == IF a <= b THEN a ELSE b

Max(a, b) == IF a >= b THEN a ELSE b

\* (mask == 0).sum(): the number of visible entries of a mask.
Visible(m) == {p \in DOMAIN m : m[p] = 0}

NumVisible(m) == Cardinality(Visible(m))

\* ones(n)
Ones(n) == [p \in 1..n |-> 1]

\* zeros: an unmasked traffic class (ma.nomask, or mask[:] = 0)
Zeros(n) == [p \in 1..n |-> 0]

\* The sequences of length 1 .. maxn over 1 .. maxv.
SeqsUpTo(maxn, maxv) == UNION {[1..n -> 1..maxv] : n \in 1..maxn}

\* PPTC.mask(tc, m): the masked array stores m as a boolean mask, so every
\* non-zero entry becomes 1 (True).
PptcMask(m) == [p \in DOMAIN m |-> IF m[p] = 0 THEN 0 ELSE 1]

\* numpy.argsort(lens) with the default kind ('quicksort'), which is not a
\* stable sort: the result is some permutation of the python indices that
\* orders the values non-decreasingly, equal values in an order the sort
\* does not promise.  rem is the set of positions not yet placed.
RECURSIVE ArgsortFrom(_, _)
ArgsortFrom(l, rem) ==
    IF rem = {} THEN {<<>>}
    ELSE LET least == {p \in rem : \A q \in rem : l[p] <= l[q]}
         IN  UNION {{<<p - 1>> \o s : s \in ArgsortFrom(l, rem \ {p})} : p \in least}

Argsort(l) == ArgsortFrom(l, DOMAIN l)

\* mask = ones(n); mask[ind[:min(num_paths, mask.size)]] = 0
KShortestMask(ind, k) ==
    LET n == Len(ind)
        m == Min(k, n)
    IN  [p \in 1..n |-> IF \E j \in 1..m : ind[j] = p - 1 THEN 0 ELSE 1]

\* ------------------------------------------------------- k_shortest_paths
\* The PPTC handed to a selector: any lengths, every class either unmasked
\* or fully masked.
InitPptc ==
    /\ lens \in {l \in [TCs -> SeqsUpTo(MaxPaths, MaxLen)] : Len(l[1]) <= MaxPathsFirst}
    /\ pmask \in {f \in [TCs -> UNION {{Zeros(n), Ones(n)} : n \in 1..MaxPaths}] :
                    \A tc \in TCs : Len(f[tc]) = Len(lens[tc])}

\* The variables of the other selectors, while they are not running.
IdleCall ==
    /\ args = <<>>
    /\ result = <<>>

IdleIlp ==
    /\ num_nodes = 0
    /\ debug = FALSE
    /\ calls = <<>>
    /\ ret = <<>>

\* A local name that is not bound yet.
NoOpt == [solved |-> FALSE, obj |-> 0, pptc |-> <<>>, xps |-> <<>>, bound |-> FALSE]

\* pathtrees[tc] = None
NoTree == [buckets |-> <<>>, bcur |-> 0, icur |-> <<>>]

IdleSa ==
    /\ expel_mode = "no_flow"
    /\ replace_mode = "next_sorted"
    /\ heap = [tc \in TCs |-> <<>>]
    /\ explored = [tc \in TCs |-> <<>>]
    /\ bestpaths = [tc \in TCs |-> 0]
    /\ bestopt = NoOpt
    /\ sa_k = 0
    /\ pathtrees = [tc \in TCs |-> NoTree]

IdleIter ==
    /\ max_iter = 0
    /\ epsilon = 0
    /\ sort_mode = "len"
    /\ iter_i = 0
    /\ iter_k = 0
    /\ diff = 0
    /\ old_val = 0
    /\ mp = 0
    /\ opt = NoOpt

\* A PPTC of one unmasked path per traffic class, for the selectors whose
\* steps never read the paths themselves.
InitPptcFixed ==
    /\ lens = [tc \in TCs |-> <<2>>]
    /\ pmask = [tc \in TCs |-> <<0>>]

InitKS ==
    /\ pc = "start"
    /\ err = "none"
    /\ InitPptc
    /\ num_paths \in 0..MaxK
    /\ inds = [tc \in TCs |-> <<>>]
    /\ IdleIlp
    /\ IdleIter
    /\ IdleSa
    /\ IdleCall

\* k_shortest_paths(pptc, num_paths): for every traffic class, argsort the
\* lengths, mask everything, unmask the first min(num_paths, n) of the order.
k_shortest_paths ==
    /\ pc = "start"
    /\ \E ind \in [TCs -> UNION {Argsort(lens[tc]) : tc \in TCs}] :
          /\ \A tc \in TCs : ind[tc] \in Argsort(lens[tc])
          /\ pmask' = [tc \in TCs |-> PptcMask(KShortestMask(ind[tc], num_paths))]
          /\ inds' = ind
    /\ pc' = "done"
    /\ UNCHANGED <<callVars, lens, num_paths, err, ilpVars, iterVars, saVars>>

NextKS == k_shortest_paths

SpecKS == InitKS /\ [][NextKS]_vars

\* ------------------------------------------------------------ choose_rand
\* numpy.random.choice(arange(n), k, replace=False): any k distinct indices
\* (as positions).
Choice(S, k) == {c \in SUBSET S : Cardinality(c) = k}

\* choose_rand with the test n >= k and one index too few drawn.
ChooseRandMaskBroken(n, k) ==
    IF n >= k
    THEN {[p \in 1..n |-> IF p \in c THEN 0 ELSE 1] : c \in Choice(1..n, Max(k - 1, 0))}
    ELSE {Zeros(n)}

\* The masks choose_rand can leave for a class of n paths.
ChooseRandMask(n, k) ==
    IF n > k
    THEN {[p \in 1..n |-> IF p \in c THEN 0 ELSE 1] : c \in Choice(1..n, k)}
    ELSE {Zeros(n)}

InitRand ==
    /\ pc = "start"
    /\ err = "none"
    /\ InitPptc
    /\ num_paths \in 0..MaxK
    /\ inds = [tc \in TCs |-> <<>>]
    /\ IdleIlp
    /\ IdleIter
    /\ IdleSa
    /\ IdleCall

choose_rand ==
    /\ pc = "start"
    /\ \E f \in [TCs -> UNION {ChooseRandMask(Len(lens[tc]), num_paths) : tc \in TCs}] :
          /\ \A tc \in TCs : f[tc] \in ChooseRandMask(Len(lens[tc]), num_paths)
          /\ pmask' = [tc \in TCs |-> PptcMask(f[tc])]
    /\ pc' = "done"
    /\ UNCHANGED <<callVars, lens, num_paths, inds, err, ilpVars, iterVars, saVars>>

NextRand == choose_rand

SpecRand == InitRand /\ [][NextRand]_vars

\* ------------------------------------------------------------- select_ilp
\* Largest topology size (number of nodes) select_ilp is run on.
MaxNodes == 4

\* The cap with (num_nodes - 1) * 2 in place of (num_nodes - 1) ** 2.
PathCapBroken(nodes, k) == (nodes - 1) * 2 * k

\* (topo.num_nodes() - 1) ** 2 * num_paths
PathCap(nodes, k) == (nodes - 1) * (nodes - 1) * k

\* One call on the optimization object opt.
Call(op, arg) == [op |-> op, arg |-> arg]

InitIlp ==
    /\ pc = "start"
    /\ err = "none"
    /\ InitPptcFixed
    /\ num_paths \in 0..MaxK
    /\ inds = [tc \in TCs |-> <<>>]
    /\ num_nodes \in 1..MaxNodes
    /\ debug \in BOOLEAN
    /\ calls = <<>>
    /\ ret = <<>>
    /\ IdleIter
    /\ IdleSa
    /\ IdleCall

\* opt = compose_apps(...); opt.cap_num_paths(...)
ilp_compose_cap ==
    /\ pc = "start"
    /\ calls' = <<Call("compose_apps", 0), Call("cap_num_paths", PathCap(num_nodes, num_paths))>>
    /\ pc' = "capped"
    /\ UNCHANGED <<callVars, err, pptcVars, num_nodes, debug, ret, iterVars, saVars>>

\* select_ilp without the raise on an unsolved optimization.
IlpAfterSolveBroken(cs, dbg, solved) ==
    LET c1 == cs \o <<Call("solve", 0), Call("get_time", 0)>>
        c2 == IF dbg THEN Append(c1, Call("write", 0)) ELSE c1
        c3 == Append(c2, Call("is_solved", IF solved THEN 1 ELSE 0))
        c4 == IF dbg THEN Append(c3, Call("write_solution", 0)) ELSE c3
    IN  [calls |-> c4 \o <<Call("get_chosen_paths", 0), Call("get_time", 0)>>,
         err   |-> "none",
         ret   |-> <<"opt", "opt.get_chosen_paths()">>]

\* opt.solve() and the rest of select_ilp, given whether the solver found a
\* solution: the calls made, the exception raised and the value returned.
IlpAfterSolve(cs, dbg, solved) ==
    LET c1 == cs \o <<Call("solve", 0), Call("get_time", 0)>>
        c2 == IF dbg THEN Append(c1, Call("write", 0)) ELSE c1
        c3 == Append(c2, Call("is_solved", IF solved THEN 1 ELSE 0))
        c4 == IF dbg THEN Append(c3, Call("write_solution", 0)) ELSE c3
    IN  IF ~solved
        THEN [calls |-> c3, err |-> "SOLException", ret |-> <<>>]
        ELSE [calls |-> c4 \o <<Call("get_chosen_paths", 0), Call("get_time", 0)>>,
              err   |-> "none",
              ret   |-> <<"opt", "opt.get_chosen_paths()">>]

\* opt.solve() to the end of select_ilp; the solver is opaque, it either
\* finds a solution or does not.
ilp_solve_finish ==
    /\ pc = "capped"
    /\ \E solved \in BOOLEAN :
          LET r == IlpAfterSolve(calls, debug, solved)
          IN  /\ calls' = r.calls
              /\ err' = r.err
              /\ ret' = r.ret
              /\ pc' = IF r.err = "none" THEN "returned" ELSE "raised"
    /\ UNCHANGED <<callVars, pptcVars, num_nodes, debug, iterVars, saVars>>

NextIlp == ilp_compose_cap \/ ilp_solve_finish

SpecIlp == InitIlp /\ [][NextIlp]_vars

\* ------------------------------------------------------- select_iterative
\* Largest number of candidate paths of a traffic class (select_iterative).
MaxPathsIt == 6
\* max_iter is drawn from 0 .. MaxIterIt.
MaxIterIt == 2
\* The solver's objective values are drawn from 0 .. MaxObj.
MaxObj == 1
\* epsilon is drawn from 0 .. MaxEps.
MaxEps == 1
\* k = 5
InitialK == 5
\* diff = 1 << 10
InitialDiff == 1024

\* Paths listed from the shortest to the longest, or from the longest to
\* the shortest (no two of equal length).
Ascending(n) == [p \in 1..n |-> p + 1]

Descending(n) == [p \in 1..n |-> n + 2 - p]

\* all_pptc.max_paths(all=True)
MaxPathsOf(l) == CHOOSE n \in {Len(l[tc]) : tc \in TCs} : \A tc \in TCs : Len(l[tc]) <= n

\* The x values of an optimization that nothing has read yet.
Unread == <<>>

\* The x values get_xps() can show for an optimization composed from the
\* masks seen: xps[tc] is the set of columns (counted from 1 over the
\* visible paths of tc) whose variable is non-zero in some epoch. The
\* solver is opaque: the values are fixed when they are first read, and
\* only in a run that looks at them (reads).
XpsOf(seen, reads) ==
    IF reads
    THEN {x \in [TCs -> SUBSET (1..MaxPathsOf(seen))] :
            \A tc \in TCs : x[tc] \subseteq 1..NumVisible(seen[tc])}
    ELSE {[tc \in TCs |-> {}]}

\* compose_apps(...) followed by opt.solve(), on the masks seen: the solver
\* is opaque, it finds no solution or one with some objective value.
Solve(seen) ==
    {[solved |-> FALSE, obj |-> 0, pptc |-> seen, xps |-> Unread, bound |-> TRUE]}
    \cup {[solved |-> TRUE, obj |-> o, pptc |-> seen, xps |-> Unread, bound |-> TRUE] :
            o \in 0..MaxObj}

\* mask = get_mask(tc); mask[ind[:min(k, mask.size)]] = 0
UnmaskFirst(mask, ind, k) ==
    [p \in DOMAIN mask |->
        IF \E j \in 1..Min(k, Len(mask)) : ind[j] = p - 1 THEN 0 ELSE mask[p]]

InitIter ==
    /\ pc = "start"
    /\ err = "none"
    /\ lens \in [TCs -> UNION {{Ascending(n), Descending(n)} : n \in 1..MaxPathsIt}]
    /\ pmask = [tc \in TCs |-> Zeros(Len(lens[tc]))]
    /\ num_paths = 0
    /\ inds = [tc \in TCs |-> <<>>]
    /\ IdleIlp
    /\ max_iter \in 0..MaxIterIt
    /\ epsilon \in 0..MaxEps
    /\ sort_mode \in {"len", "unknown"}
    /\ iter_i = 0
    /\ iter_k = 0
    /\ diff = 0
    /\ old_val = 0
    /\ mp = 0
    /\ opt = NoOpt
    /\ IdleSa
    /\ IdleCall

\* select_iterative up to its loop: the locals, the preorder of the paths
\* and the first masks (the InitialK shortest), or InvalidConfigException.
iter_start ==
    /\ pc = "start"
    /\ IF sort_mode = "len"
       THEN \E ind \in [TCs -> UNION {Argsort(lens[tc]) : tc \in TCs}] :
               /\ \A tc \in TCs : ind[tc] \in Argsort(lens[tc])
               /\ pmask' = [tc \in TCs |-> PptcMask(KShortestMask(ind[tc], InitialK))]
               /\ inds' = ind
               /\ iter_i' = 0
               /\ diff' = InitialDiff
               /\ old_val' = 0
               /\ iter_k' = InitialK
               /\ mp' = MaxPathsOf(lens)
               /\ pc' = "loop"
               /\ err' = "none"
       ELSE /\ pc' = "raised"
            /\ err' = "InvalidConfigException"
            /\ UNCHANGED <<pmask, inds, iter_i, diff, old_val, iter_k, mp>>
    /\ UNCHANGED <<callVars, lens, num_paths, ilpVars, max_iter, epsilon, sort_mode, opt, saVars>>

\* while i < max_iter and diff > epsilon and k < mp
IterContinue == iter_i < max_iter /\ diff > epsilon /\ iter_k < mp

\* One iteration of the loop: unmask the first min(k, n) paths of the
\* preorder, compose and solve, update diff and old_val when solved,
\* double k.
iter_step ==
    /\ pc = "loop"
    /\ IterContinue
    /\ LET newmask == [tc \in TCs |-> PptcMask(UnmaskFirst(pmask[tc], inds[tc], iter_k))]
       IN  /\ pmask' = newmask
           /\ \E o \in Solve(newmask) :
                 /\ opt' = o
                 /\ diff' = IF o.solved THEN o.obj - old_val ELSE diff
                 /\ old_val' = IF o.solved THEN o.obj ELSE old_val
    /\ iter_k' = iter_k * 2
    /\ iter_i' = iter_i + 1
    /\ UNCHANGED <<callVars, pc, err, lens, num_paths, inds, ilpVars, max_iter, epsilon, sort_mode, mp, saVars>>

\* After the loop: opt is read, which is unbound when the loop never ran;
\* SOLException when it is not solved; else the result is returned.
iter_finish ==
    /\ pc = "loop"
    /\ ~IterContinue
    /\ IF ~opt.bound
       THEN pc' = "raised" /\ err' = "UnboundLocalError" /\ ret' = <<>>
       ELSE IF ~opt.solved
       THEN pc' = "raised" /\ err' = "SOLException" /\ ret' = <<>>
       ELSE pc' = "returned" /\ err' = "none"
            /\ ret' = <<"opt", "opt.get_chosen_paths(relaxed=True)">>
    /\ UNCHANGED <<callVars, pptcVars, num_nodes, debug, calls, iterVars, saVars>>

NextIter == iter_start \/ iter_step \/ iter_finish

SpecIter == InitIter /\ [][NextIter]_vars

\* --------------------------------------------------- PathTree, _expel, _replace
\* max_tries = 100
MaxTries == 100

ExpelModes == {"no_flow", "inverse_flow", "random", "all"}

ReplaceModes == {"next_sorted", "random", "pathtree"}

\* PathTree(paths) for plain paths: one bucket, argsort of the lengths.
PathTreeOf(l) == {[buckets |-> <<a>>, bcur |-> 0, icur |-> <<0>>] : a \in Argsort(l)}

\* PathTree.__next__ with one cursor shared by all the buckets.
TreeNextBroken(t) ==
    LET b == t.bcur + 1
    IN  [val  |-> t.buckets[b][(t.icur[1] % Len(t.buckets[b])) + 1],
         tree |-> [t EXCEPT !.bcur = (t.bcur + 1) % Len(t.buckets),
                            !.icur[1] = t.icur[1] + 1]]

\* PathTree.__next__: the next bucket of the cycle over the buckets, and
\* the next index of the cycle over that bucket.
TreeNext(t) ==
    LET b == t.bcur + 1
    IN  [val  |-> t.buckets[b][t.icur[b] + 1],
         tree |-> [t EXCEPT !.bcur = (t.bcur + 1) % Len(t.buckets),
                            !.icur[b] = (t.icur[b] + 1) % Len(t.buckets[b])]]

\* mask[list(comb)] = v, comb a set of positions
SetTo(mask, comb, v) == [p \in DOMAIN mask |-> IF p \in comb THEN v ELSE mask[p]]

\* The value of ii when _expel visits position p: the number of entries
\* before p that read 0, as a column counted from 1.
ColumnOf(mask, p) == Cardinality({q \in 1..(p - 1) : mask[q] = 0}) + 1

\* ExpelMode.no_flow with ii advanced at every entry of the mask.
RECURSIVE ExpelNoFlowFromBroken(_, _, _, _)
ExpelNoFlowFromBroken(mask, x, i, ii) ==
    IF i > Len(mask) THEN mask
    ELSE IF mask[i] = 0
         THEN ExpelNoFlowFromBroken(IF (ii + 1) \in x THEN mask ELSE [mask EXCEPT ![i] = 1],
                                    x, i + 1, ii + 1)
         ELSE ExpelNoFlowFromBroken(mask, x, i + 1, ii + 1)

\* ExpelMode.no_flow: the for loop from position i on, with the counter ii.
\* An entry that reads 0 is set to 1 unless column ii of xps[tcid] has a
\* non-zero x in some epoch, and ii is advanced.
RECURSIVE ExpelNoFlowFrom(_, _, _, _)
ExpelNoFlowFrom(mask, x, i, ii) ==
    IF i > Len(mask) THEN mask
    ELSE IF mask[i] = 0
         THEN ExpelNoFlowFrom(IF (ii + 1) \in x THEN mask ELSE [mask EXCEPT ![i] = 1],
                              x, i + 1, ii + 1)
         ELSE ExpelNoFlowFrom(mask, x, i + 1, ii)

\* _expel(tcid, existing_mask, xps, mode): the masks it can leave. x is the
\* set of columns of xps[tcid] with a non-zero x in some epoch, ncols the
\* number of columns that hold variables (the others hold the int 0).
Expel(mask, x, ncols, mode) ==
    LET vis == Visible(mask)
    IN  CASE mode = "no_flow" ->
               {ExpelNoFlowFrom(mask, x, 1, 0)}
          [] mode = "inverse_flow" ->
               \* mean flow 0: random() <= 1.0 always; mean flow in (0, 1]: either;
               \* no variable in the column: mean([]) is nan and nothing compares
               LET must == {p \in vis : ColumnOf(mask, p) \notin x /\ ColumnOf(mask, p) <= ncols}
                   may  == {p \in vis : ColumnOf(mask, p) \in x}
               IN  {SetTo(mask, must \cup c, 1) : c \in SUBSET may}
          [] mode = "random" ->
               {SetTo(mask, c, 1) : c \in SUBSET vis}
          [] mode = "all" ->
               {Ones(Len(mask))}

\* _in(mask, explored): others are the values of the arrays of explored
\* that are not the array mask itself; aliased says that the array mask
\* is itself an entry of explored (it then equals that entry, always).
In(mask, others, aliased) == aliased \/ mask \in others

\* replace_len = max(0, num_paths - ((mask == 0).sum()))
ReplaceLen(mask, k) == Max(0, k - NumVisible(mask))

\* unused = [i for i, v in enumerate(mask) if v == 1]
Unused(mask) == {p \in DOMAIN mask : mask[p] = 1}

\* The first of the combinations C (sets of one size) in the order of
\* itertools.combinations over an ascending list: lexicographic.
LexFirst(C) ==
    CHOOSE c \in C : \A d \in C \ {c} :
        LET delta == (c \ d) \cup (d \ c)
        IN  (CHOOSE m \in delta : \A e \in delta : m <= e) \in c

\* The elements of a set of positions as an ascending list.
RECURSIVE AscList(_)
AscList(S) ==
    IF S = {} THEN <<>>
    ELSE LET lo == CHOOSE p \in S : \A q \in S : p <= q
         IN  <<lo>> \o AscList(S \ {lo})

\* itertools.combinations(l, r), as the list of the sets it yields one
\* after the other: those with the head of l first, then those without.
RECURSIVE Combinations(_, _)
Combinations(l, r) ==
    IF r = 0 THEN <<{}>>
    ELSE IF Len(l) < r THEN <<>>
    ELSE LET with == Combinations(Tail(l), r - 1)
         IN  [j \in DOMAIN with |-> with[j] \cup {Head(l)}] \o Combinations(Tail(l), r)

\* The for loop of ReplaceMode.next_sorted from its j-th combination on:
\* enable it; break if the mask is not in explored, put the 1s back
\* otherwise. Without a break, any combination is drawn.
RECURSIVE NextSortedFrom(_, _, _, _, _)
NextSortedFrom(combs, j, others, aliased, mask) ==
    IF j > Len(combs)
    THEN {SetTo(mask, combs[c], 0) : c \in DOMAIN combs}
    ELSE IF ~In(SetTo(mask, combs[j], 0), others, aliased)
         THEN {SetTo(mask, combs[j], 0)}
         ELSE NextSortedFrom(combs, j + 1, others, aliased, mask)

\* ReplaceMode.next_sorted with a loop that breaks on the first mask that
\* is in explored.
ReplaceNextSortedBroken(others, aliased, mask, rl) ==
    LET combs == Combinations(AscList(Unused(mask)), rl)
        found == {j \in DOMAIN combs : In(SetTo(mask, combs[j], 0), others, aliased)}
    IN  IF found # {}
        THEN {SetTo(mask, combs[CHOOSE j \in found : \A i \in found : j <= i], 0)}
        ELSE {SetTo(mask, combs[c], 0) : c \in DOMAIN combs}

\* ReplaceMode.next_sorted
ReplaceNextSorted(others, aliased, mask, rl) ==
    NextSortedFrom(Combinations(AscList(Unused(mask)), rl), 1, others, aliased, mask)

\* ReplaceMode.random: the masks the loop
\*   while not _in(mask, explored) and num_tries < max_tries
\* can end with. Every pass draws a fresh combination of unused indices. A
\* drawn mask that is in explored ends the loop at once (ended); one that
\* is not in explored is dropped for a new draw, and is what is left only
\* when max_tries further draws have all been outside explored (spent).
ReplaceRandom(others, aliased, mask, rl) ==
    LET cands == {SetTo(mask, c, 0) : c \in Choice(Unused(mask), rl)}
        ended == {m \in cands : In(m, others, aliased)}
        spent == {m \in cands : ~In(m, others, aliased)}
    IN  ended \cup spent

\* ReplaceMode.random with the value of num_tries at the end of the loop:
\* the first draw is in explored (no pass); or the first draw and the
\* draws of t - 1 passes are outside explored and the draw of pass t is in
\* explored; or the first draw and the draws of max_tries - 1 passes are
\* outside explored and the last pass draws anything.
ReplaceRandomRuns(others, aliased, mask, rl) ==
    LET cands == {SetTo(mask, c, 0) : c \in Choice(Unused(mask), rl)}
        ended == {m \in cands : In(m, others, aliased)}
        spent == {m \in cands : ~In(m, others, aliased)}
    IN  {[mask |-> m, tries |-> 0] : m \in ended}
        \cup (IF spent = {} THEN {}
              ELSE {[mask |-> m, tries |-> t] : m \in ended, t \in 1..MaxTries}
                   \cup {[mask |-> m, tries |-> MaxTries] : m \in spent})

\* comb = set(); while len(comb) < replace_len: comb.add(next(tree))
RECURSIVE TreeCollect(_, _, _)
TreeCollect(t, comb, rl) ==
    IF Cardinality(comb) >= rl THEN [comb |-> comb, tree |-> t]
    ELSE LET nx == TreeNext(t)
         IN  TreeCollect(nx.tree, comb \cup {nx.val + 1}, rl)

\* ReplaceMode.pathtree: one test of the loop
\*   while _in(mask, explored) and num_tries < max_tries
\* and, when it holds, one pass of its body. st is the loop's state: mask
\* (with mask[comb] = 0 done), comb, tree, tries and whether it has ended.
PathtreePass(others, aliased, st, rl) ==
    IF ~st.done /\ In(st.mask, others, aliased) /\ st.tries < MaxTries
    THEN LET c == TreeCollect(st.tree, {}, rl)
         IN  [mask  |-> SetTo(SetTo(st.mask, st.comb, 1), c.comb, 0),
              comb  |-> c.comb,
              tree  |-> c.tree,
              tries |-> st.tries + 1,
              done  |-> FALSE]
    ELSE [mask |-> st.mask, comb |-> st.comb, tree |-> st.tree,
          tries |-> st.tries, done |-> TRUE]

\* n tests of the loop in a row (halved, to keep the evaluation shallow);
\* a loop that has ended stays as it is.
RECURSIVE PathtreePasses(_, _, _, _, _)
PathtreePasses(others, aliased, st, rl, n) ==
    IF n = 0 THEN st
    ELSE IF n = 1 THEN PathtreePass(others, aliased, st, rl)
    ELSE LET half == PathtreePasses(others, aliased, st, rl, n \div 2)
         IN  IF half.done THEN half
             ELSE PathtreePasses(others, aliased, half, rl, n - (n \div 2))

\* ReplaceMode.pathtree: the loop ends within max_tries + 1 tests.
ReplacePathtree(others, aliased, mask, rl, t) ==
    LET c   == TreeCollect(t, {}, rl)
        st0 == [mask |-> SetTo(mask, c.comb, 0), comb |-> c.comb, tree |-> c.tree,
                tries |-> 0, done |-> FALSE]
        end == PathtreePasses(others, aliased, st0, rl, MaxTries + 1)
    IN  [mask |-> end.mask, tree |-> end.tree]

\* _replace(explored, mask, num_paths, mode, tree): the masks it can leave
\* in the array mask, with the tree as it then is.
Replace(others, aliased, mask, k, mode, t) ==
    LET rl == ReplaceLen(mask, k)
    IN  IF rl <= 0 THEN {[mask |-> mask, tree |-> t]}
        ELSE IF Cardinality(Unused(mask)) < rl
        THEN {[mask |-> Zeros(Len(mask)), tree |-> t]}
        ELSE CASE mode = "next_sorted" ->
                    {[mask |-> m, tree |-> t] : m \in ReplaceNextSorted(others, aliased, mask, rl)}
               [] mode = "random" ->
                    {[mask |-> m, tree |-> t] : m \in ReplaceRandom(others, aliased, mask, rl)}
               [] mode = "pathtree" ->
                    {ReplacePathtree(others, aliased, mask, rl, t)}

\* -------------------------------------------------------------- select_sa
\* Largest number of candidate paths of a traffic class (select_sa).
MaxPathsSA == 3
\* max_iter is drawn from 0 .. MaxIter.
MaxIter == 2
\* _obj_state of an unsolved optimization: -inf, below every objective.
NegInf == -1

\* _obj_state(opt)
ObjState(o) == IF o.solved THEN o.obj ELSE NegInf

\* _saprob(oldo, newo, temp): 1 if oldo <= newo else 0
SaProb(oldo, newo) == IF oldo <= newo THEN 1 ELSE 0

\* random.random() draws from [0, 1): the draws kept are 0.0 and 0.5,
\* counted in halves.
UDraws == {0, 1}

\* random.random() <= prob, the draw u in halves
Accept(u, prob) == u <= 2 * prob

\* Whether the run reads the x values of the best optimization.
ReadsXps(mode) == mode \in {"no_flow", "inverse_flow"}

\* explored[tc][-1], as an identity
LastExplored(tc) == explored[tc][Len(explored[tc])]

\* The values of the arrays of explored[tc] other than the array id.
OtherValues(tc, id) == {heap[tc][explored[tc][j]] : j \in {j \in DOMAIN explored[tc] : explored[tc][j] # id}}

InitSa ==
    /\ pc = "start"
    /\ err = "none"
    /\ lens \in [TCs -> {Ascending(n) : n \in 1..MaxPathsSA}]
    /\ pmask = [tc \in TCs |-> Zeros(Len(lens[tc]))]
    /\ num_paths \in 0..MaxK
    /\ inds = [tc \in TCs |-> <<>>]
    /\ IdleIlp
    /\ max_iter \in 0..MaxIter
    /\ epsilon = 0
    /\ sort_mode = "len"
    /\ iter_i = 0
    /\ iter_k = 0
    /\ diff = 0
    /\ old_val = 0
    /\ mp = 0
    /\ opt = NoOpt
    /\ expel_mode \in ExpelModes
    /\ replace_mode \in ReplaceModes
    /\ heap = [tc \in TCs |-> <<>>]
    /\ explored = [tc \in TCs |-> <<>>]
    /\ bestpaths = [tc \in TCs |-> 0]
    /\ bestopt = NoOpt
    /\ sa_k = 0
    /\ pathtrees = [tc \in TCs |-> NoTree]
    /\ IdleCall

\* pptc_len[tc] = all_pptc.num_paths(tc), taken before any mask is set (the
\* merged PPTC is unmasked then, so it is the number of candidate paths).
PptcLen(tc) == Len(lens[tc])

\* select_sa up to the first solve: k_shortest_paths, whose return value
\* (the argsort arrays, not the masks) becomes the first entry of explored;
\* the path trees; compose and solve.
sa_start ==
    /\ pc = "start"
    /\ \E ind \in [TCs -> UNION {Argsort(lens[tc]) : tc \in TCs}] :
          /\ \A tc \in TCs : ind[tc] \in Argsort(lens[tc])
          /\ pmask' = [tc \in TCs |-> PptcMask(KShortestMask(ind[tc], num_paths))]
          /\ inds' = ind
          /\ heap' = [tc \in TCs |-> <<ind[tc]>>]
          /\ explored' = [tc \in TCs |-> <<1>>]
    /\ IF replace_mode = "pathtree"
       THEN \E t \in [TCs -> UNION {PathTreeOf(lens[tc]) : tc \in TCs}] :
               /\ \A tc \in TCs : t[tc] \in PathTreeOf(lens[tc])
               /\ pathtrees' = t
       ELSE pathtrees' = [tc \in TCs |-> NoTree]
    /\ opt' \in Solve(pmask')
    /\ sa_k' = 0
    /\ bestopt' = NoOpt
    /\ bestpaths' = [tc \in TCs |-> 0]
    /\ pc' = "feas"
    /\ UNCHANGED <<callVars, err, lens, num_paths, ilpVars, max_iter, epsilon, sort_mode,
                   iter_i, iter_k, diff, old_val, mp, expel_mode, replace_mode>>

\* One choice per traffic class out of the sets c[tc].
PerClass(c) == {r \in [TCs -> UNION {c[tc] : tc \in TCs}] : \A tc \in TCs : r[tc] \in c[tc]}

\* What one pass of the feasibility loop can leave for tc: newmask is the
\* array explored[tc][-1] itself, filled with 1 and refilled by _replace.
FeasPropose(tc) ==
    LET id == LastExplored(tc)
    IN  UNION {Replace(OtherValues(tc, id), TRUE, e, num_paths, replace_mode, pathtrees[tc]) :
                 e \in Expel(heap[tc][id], {}, 0, "all")}

\* while not opt.is_solved() and k <= max_iter: one pass. The PPTC is not
\* written in this loop.
sa_feas_step ==
    /\ pc = "feas"
    /\ ~opt.solved /\ sa_k <= max_iter
    /\ \E r \in PerClass([tc \in TCs |-> FeasPropose(tc)]) :
          /\ heap' = [tc \in TCs |-> [heap[tc] EXCEPT ![LastExplored(tc)] = r[tc].mask]]
          /\ explored' = [tc \in TCs |-> Append(explored[tc], LastExplored(tc))]
          /\ pathtrees' = [tc \in TCs |-> r[tc].tree]
    /\ opt' \in Solve(pmask)
    /\ sa_k' = sa_k + 1
    /\ UNCHANGED <<callVars, pc, err, pptcVars, ilpVars, max_iter, epsilon, sort_mode,
                   iter_i, iter_k, diff, old_val, mp, expel_mode, replace_mode,
                   bestpaths, bestopt>>

\* After the feasibility loop: SOLException when k > max_iter, else the
\* current optimization is the best so far. sa_k then holds the value the
\* loop variable of the annealing loop takes next.
sa_feas_exit ==
    /\ pc = "feas"
    /\ ~(~opt.solved /\ sa_k <= max_iter)
    /\ IF sa_k > max_iter
       THEN /\ pc' = "raised"
            /\ err' = "SOLException"
            /\ UNCHANGED <<bestopt, bestpaths, sa_k>>
       ELSE /\ pc' = "anneal"
            /\ err' = "none"
            /\ bestopt' = opt
            /\ bestpaths' = [tc \in TCs |-> LastExplored(tc)]
            /\ sa_k' = 1
    /\ UNCHANGED <<callVars, pptcVars, ilpVars, max_iter, epsilon, sort_mode, iter_i, iter_k,
                   diff, old_val, mp, opt, expel_mode, replace_mode, heap, explored,
                   pathtrees>>

\* What one annealing iteration can propose for tc: newmask is a copy of
\* bestpaths[tc], expelled from and refilled.
AnnealPropose(tc, x) ==
    UNION {Replace(OtherValues(tc, 0), FALSE, e, num_paths, replace_mode, pathtrees[tc]) :
             e \in Expel(heap[tc][bestpaths[tc]], x[tc],
                         NumVisible(bestopt.pptc[tc]), expel_mode)}

\* optvars = bestopt.get_xps(): the x values of the best optimization, as
\* they were read before or as they are read now.
BestXps ==
    IF bestopt.xps = Unread THEN XpsOf(bestopt.pptc, ReadsXps(expel_mode)) ELSE {bestopt.xps}

\* for k in arange(1, max_iter): one iteration.
sa_anneal_step ==
    /\ pc = "anneal"
    /\ sa_k < max_iter
    /\ \E x \in BestXps, u \in UDraws :
       \E r \in PerClass([tc \in TCs |-> AnnealPropose(tc, x)]) :
          /\ LET skip == [tc \in TCs |-> num_paths >= PptcLen(tc)]
             IN  /\ pmask' = [tc \in TCs |-> IF skip[tc] THEN pmask[tc] ELSE PptcMask(r[tc].mask)]
                 /\ heap' = [tc \in TCs |-> IF skip[tc] THEN heap[tc] ELSE Append(heap[tc], r[tc].mask)]
                 /\ explored' = [tc \in TCs |->
                                   IF skip[tc] THEN explored[tc]
                                   ELSE Append(explored[tc], Len(heap[tc]) + 1)]
                 /\ pathtrees' = [tc \in TCs |-> IF skip[tc] THEN pathtrees[tc] ELSE r[tc].tree]
          /\ opt' \in Solve(pmask')
          /\ IF Accept(u, SaProb(ObjState(bestopt), ObjState(opt')))
             THEN /\ bestopt' = opt'
                  /\ bestpaths' = [tc \in TCs |-> explored'[tc][Len(explored'[tc])]]
             ELSE /\ bestopt' = [bestopt EXCEPT !.xps = x]
                  /\ bestpaths' = bestpaths
    /\ sa_k' = sa_k + 1
    /\ UNCHANGED <<callVars, pc, err, lens, num_paths, inds, ilpVars, max_iter, epsilon, sort_mode,
                   iter_i, iter_k, diff, old_val, mp, expel_mode, replace_mode>>

\* for tc in all_pptc: all_pptc.mask(tc, bestpaths[tc]); return
sa_return ==
    /\ pc = "anneal"
    /\ ~(sa_k < max_iter)
    /\ pmask' = [tc \in TCs |-> PptcMask(heap[tc][bestpaths[tc]])]
    /\ ret' = <<"bestopt", "all_pptc">>
    /\ pc' = "returned"
    /\ UNCHANGED <<callVars, err, lens, num_paths, inds, num_nodes, debug, calls, iterVars, saVars>>

NextSa == sa_start \/ sa_feas_step \/ sa_feas_exit \/ sa_anneal_step \/ sa_return

SpecSa == InitSa /\ [][NextSa]_vars

\* select_sa on one larger input: a class with one path and a class with
\* WidePaths paths, a target of WideK paths, max_iter = WideIter.
WidePaths == 5
WideK == 3
WideIter == 3

InitSaWide ==
    /\ pc = "start"
    /\ err = "none"
    /\ lens = [tc \in TCs |-> IF tc = 1 THEN Ascending(1) ELSE Ascending(WidePaths)]
    /\ pmask = [tc \in TCs |-> Zeros(Len(lens[tc]))]
    /\ num_paths = WideK
    /\ inds = [tc \in TCs |-> <<>>]
    /\ IdleIlp
    /\ max_iter = WideIter
    /\ epsilon = 0
    /\ sort_mode = "len"
    /\ iter_i = 0
    /\ iter_k = 0
    /\ diff = 0
    /\ old_val = 0
    /\ mp = 0
    /\ opt = NoOpt
    /\ expel_mode \in {"no_flow", "all"}
    /\ replace_mode \in ReplaceModes
    /\ heap = [tc \in TCs |-> <<>>]
    /\ explored = [tc \in TCs |-> <<>>]
    /\ bestpaths = [tc \in TCs |-> 0]
    /\ bestopt = NoOpt
    /\ sa_k = 0
    /\ pathtrees = [tc \in TCs |-> NoTree]
    /\ IdleCall

SpecSaWide == InitSaWide /\ [][NextSa]_vars

\* ------------------------------------------- single calls of the helpers
\* Largest mask of a single call of _expel or _replace.
MaxPathsCall == 3
\* explored holds at most MaxExplored other arrays in a single call.
MaxExplored == 2

\* The boolean masks of n paths.
Masks(n) == [1..n -> {0, 1}]

\* _expel(tcid, existing_mask, xps, mode) with the exception it raises.
ExpelCall(mask, x, ncols, mode) ==
    IF mode \in ExpelModes
    THEN {[mask |-> m, err |-> "none"] : m \in Expel(mask, x, ncols, mode)}
    ELSE {[mask |-> mask, err |-> "ValueError"]}

\* _replace(explored, mask, num_paths, mode, tree) with the exception it
\* raises: the two early returns come before the mode is looked at.
ReplaceCall(others, aliased, mask, k, mode, t) ==
    LET rl == ReplaceLen(mask, k)
    IN  IF rl <= 0 THEN {[mask |-> mask, tree |-> t, err |-> "none"]}
        ELSE IF Cardinality(Unused(mask)) < rl
        THEN {[mask |-> Zeros(Len(mask)), tree |-> t, err |-> "none"]}
        ELSE IF mode \in ReplaceModes
        THEN {[mask |-> r.mask, tree |-> r.tree, err |-> "none"] :
                r \in Replace(others, aliased, mask, k, mode, t)}
        ELSE {[mask |-> mask, tree |-> t, err |-> "ValueError"]}

\* cluster_tcs(tcs, num_clusters, method): the exception it raises. What
\* the clustering does to the volumes is left out.
ClusterTcs(method) ==
    IF method \in {"kmeans", "agg"} THEN [err |-> "none"] ELSE [err |-> "ValueError"]

\* The arguments of a call of _expel: x holds the columns of xps[tcid]
\* with some non-zero variable, out of ncols columns.
ExpelArgs(m, x, nc, md) ==
    [fn |-> "_expel", mask |-> m, x |-> x, ncols |-> nc, mode |-> md]

\* The arguments of a call of _replace: explored holds the values of the
\* arrays of the list other than mask; aliased says mask is in the list.
ReplaceArgs(e, al, m, k, md, t) ==
    [fn |-> "_replace", explored |-> e, aliased |-> al, mask |-> m,
     num_paths |-> k, mode |-> md, tree |-> t]

\* The lists explored of a single call, as sets of values.
ExploredSets == {e \in SUBSET Masks(MaxPathsCall) : Cardinality(e) <= MaxExplored}

ClusterArgs(md) == [fn |-> "cluster_tcs", method |-> md]

InitCall ==
    /\ pc = "start"
    /\ err = "none"
    /\ InitPptcFixed
    /\ num_paths = 0
    /\ inds = [tc \in TCs |-> <<>>]
    /\ IdleIlp
    /\ IdleIter
    /\ IdleSa
    /\ \/ \E n \in 1..MaxPathsCall :
          \E m \in Masks(n), nc \in 0..n, md \in ExpelModes \cup {"unknown"} :
          \E x \in SUBSET (1..nc) :
             args = ExpelArgs(m, x, nc, md)
       \/ \E e \in ExploredSets, al \in BOOLEAN, m \in Masks(MaxPathsCall), k \in 0..MaxK :
             \/ \E md \in (ReplaceModes \ {"pathtree"}) \cup {"unknown"} :
                   args = ReplaceArgs(e, al, m, k, md, NoTree)
             \/ \E t \in PathTreeOf(Ascending(MaxPathsCall)) :
                   args = ReplaceArgs(e, al, m, k, "pathtree", t)
       \/ \E md \in {"kmeans", "agg", "unknown"} : args = ClusterArgs(md)
    /\ result = <<>>

call_expel ==
    /\ pc = "start" /\ args.fn = "_expel"
    /\ \E r \in ExpelCall(args.mask, args.x, args.ncols, args.mode) :
          /\ result' = r
          /\ err' = r.err
          /\ pc' = IF r.err = "none" THEN "done" ELSE "raised"
    /\ UNCHANGED <<args, pptcVars, ilpVars, iterVars, saVars>>

call_replace ==
    /\ pc = "start" /\ args.fn = "_replace"
    /\ \E r \in ReplaceCall(args.explored, args.aliased, args.mask, args.num_paths,
                           args.mode, args.tree) :
          /\ result' = r
          /\ err' = r.err
          /\ pc' = IF r.err = "none" THEN "done" ELSE "raised"
    /\ UNCHANGED <<args, pptcVars, ilpVars, iterVars, saVars>>

call_cluster_tcs ==
    /\ pc = "start" /\ args.fn = "cluster_tcs"
    /\ result' = ClusterTcs(args.method)
    /\ err' = result'.err
    /\ pc' = IF result'.err = "none" THEN "done" ELSE "raised"
    /\ UNCHANGED <<args, pptcVars, ilpVars, iterVars, saVars>>

NextCall == call_expel \/ call_replace \/ call_cluster_tcs

SpecCall == InitCall /\ [][NextCall]_vars

\* --------------------------------------------- _replace, ReplaceMode.random
\* _replace(explored, mask, num_paths, ReplaceMode.random, tree) with the
\* value of num_tries at its end.
ReplaceRandomCall(others, aliased, mask, k) ==
    LET rl == ReplaceLen(mask, k)
    IN  IF rl <= 0 THEN {[mask |-> mask, tries |-> 0, err |-> "none"]}
        ELSE IF Cardinality(Unused(mask)) < rl
        THEN {[mask |-> Zeros(Len(mask)), tries |-> 0, err |-> "none"]}
        ELSE {[mask |-> r.mask, tries |-> r.tries, err |-> "none"] :
                r \in ReplaceRandomRuns(others, aliased, mask, rl)}

InitReplaceRandom ==
    /\ pc = "start"
    /\ err = "none"
    /\ InitPptcFixed
    /\ num_paths = 0
    /\ inds = [tc \in TCs |-> <<>>]
    /\ IdleIlp
    /\ IdleIter
    /\ IdleSa
    /\ \E e \in ExploredSets, al \in BOOLEAN, m \in Masks(MaxPathsCall), k \in 0..MaxK :
          args = ReplaceArgs(e, al, m, k, "random", NoTree)
    /\ result = <<>>

call_replace_random ==
    /\ pc = "start"
    /\ \E r \in ReplaceRandomCall(args.explored, args.aliased, args.mask, args.num_paths) :
          /\ result' = r
          /\ err' = r.err
          /\ pc' = "done"
    /\ UNCHANGED <<args, pptcVars, ilpVars, iterVars, saVars>>

NextReplaceRandom == call_replace_random

SpecReplaceRandom == InitReplaceRandom /\ [][NextReplaceRandom]_vars

\* ------------------------------------- PathTree and the pathtree loops
\* next(tree) is called at most MaxCalls times in a run.
MaxCalls == 8

\* The middlebox nodes.
Mboxes == {1, 2}

\* p.mboxes() of a path: some middleboxes, each once, in ascending order.
MboxLists == {AscList(S) : S \in SUBSET Mboxes}

\* The lists of a list of lists, one after the other.
RECURSIVE Flatten(_)
Flatten(ll) == IF ll = <<>> THEN <<>> ELSE Head(ll) \o Flatten(Tail(ll))

\* The keys of a dictionary in the order they were first inserted, for the
\* list of the keys inserted.
RECURSIVE FirstSeen(_)
FirstSeen(l) ==
    IF l = <<>> THEN <<>>
    ELSE <<Head(l)>> \o FirstSeen(SelectSeq(Tail(l), LAMBDA k : k # Head(l)))

\* PathTree(paths) for paths with middleboxes, mb[p] being the mboxes() of
\* the path at position p: one bucket per middlebox, in the order of the
\* keys of the dictionary, each with the indices of the paths that name
\* the middlebox, in the order of the paths.
PathTreeMbox(mb) ==
    LET keys == FirstSeen(Flatten(mb))
    IN  [buckets |-> [j \in DOMAIN keys |->
                        AscList({p - 1 : p \in {p \in DOMAIN mb :
                                    \E i \in DOMAIN mb[p] : mb[p][i] = keys[j]}})],
         bcur    |-> 0,
         icur    |-> [j \in DOMAIN keys |-> 0]]

\* The path trees of MaxPathsCall paths: of plain paths, and of paths with
\* middleboxes.
PathTrees ==
    UNION {PathTreeOf(l) : l \in [1..MaxPathsCall -> 1..MaxLen]}
    \cup {PathTreeMbox(mb) : mb \in [1..MaxPathsCall -> MboxLists]}

\* A call of _replace in pathtree mode that gets past the early returns.
\* explored is empty or holds the array mask itself and nothing else.
InitTree ==
    /\ pc = "start"
    /\ err = "none"
    /\ InitPptcFixed
    /\ num_paths = 0
    /\ inds = [tc \in TCs |-> <<>>]
    /\ IdleIlp
    /\ IdleIter
    /\ IdleSa
    /\ \E al \in BOOLEAN, m \in Masks(MaxPathsCall), k \in 1..MaxK, t \in PathTrees :
          /\ ReplaceLen(m, k) > 0
          /\ Cardinality(Unused(m)) >= ReplaceLen(m, k)
          /\ args = ReplaceArgs({}, al, m, k, "pathtree", t)
    /\ result = <<>>

\* comb = set(), at the start of _replace's pathtree branch.
tree_enter ==
    /\ pc = "start"
    /\ result' = [tree |-> args.tree, comb |-> {}, mask |-> args.mask,
                  tries |-> 0, calls |-> 0, val |-> -1]
    /\ pc' = "collect"
    /\ UNCHANGED <<args, err, pptcVars, ilpVars, iterVars, saVars>>

\* while len(comb) < replace_len: comb.add(next(tree)), one pass. next() of
\* a tree without buckets raises StopIteration.
tree_next ==
    /\ pc = "collect"
    /\ Cardinality(result.comb) < ReplaceLen(args.mask, args.num_paths)
    /\ result.calls < MaxCalls
    /\ IF result.tree.buckets = <<>>
       THEN /\ pc' = "raised"
            /\ err' = "StopIteration"
            /\ UNCHANGED result
       ELSE /\ LET nx == TreeNext(result.tree)
               IN  result' = [result EXCEPT !.tree = nx.tree,
                                            !.comb = @ \cup {nx.val + 1},
                                            !.calls = @ + 1,
                                            !.val = nx.val]
            /\ UNCHANGED <<pc, err>>
    /\ UNCHANGED <<args, pptcVars, ilpVars, iterVars, saVars>>

\* The collection is complete: mask[comb] = 0, and the test of
\*   while _in(mask, explored) and num_tries < max_tries
\* which is followed by mask[comb] = 1 and a new collection, or by the return.
tree_collected ==
    /\ pc = "collect"
    /\ Cardinality(result.comb) >= ReplaceLen(args.mask, args.num_paths)
    /\ LET done == SetTo(result.mask, result.comb, 0)
       IN  IF In(done, args.explored, args.aliased) /\ result.tries < MaxTries
           THEN /\ result' = [result EXCEPT !.mask = SetTo(done, result.comb, 1),
                                            !.comb = {},
                                            !.tries = @ + 1]
                /\ pc' = "collect"
           ELSE /\ result' = [result EXCEPT !.mask = done]
                /\ pc' = "done"
    /\ UNCHANGED <<args, err, pptcVars, ilpVars, iterVars, saVars>>

NextTree == tree_enter \/ tree_next \/ tree_collected

SpecTree == InitTree /\ [][NextTree]_vars

\* ------------------------------------------------------- k_resource_paths
\* The resources named by resource_weights are 1 .. NumRes.
NumRes == 1
\* The largest resource amount of a node or link on a path.
MaxRes == 2
\* Weights are drawn from 1 .. MaxW.
MaxW == 2
\* topo.total_resource(r) is drawn from 1 .. MaxTotal.
MaxTotal == 2
\* topo.diameter() is drawn from 1 .. MaxDiam.
MaxDiam == 2
\* Every total_resource(r) is multiplied by a factor from 1 .. MaxFactor.
MaxFactor == 3

Resources == 1..NumRes

\* The product of norm[r] over the resources S, norm[r] being
\* total_resource(r) times the factor f.
RECURSIVE NormProduct(_, _, _)
NormProduct(S, total, f) ==
    IF S = {} THEN 1
    ELSE LET r == CHOOSE r \in S : TRUE
         IN  total[r] * f * NormProduct(S \ {r}, total, f)

\* The sum over the resources S of
\*   max(resources on the path).get(r) * weights[r] * d * (product of the other norms)
RECURSIVE ResourceTerms(_, _, _, _)
ResourceTerms(S, mr, a, f) ==
    IF S = {} THEN 0
    ELSE LET r == CHOOSE r \in S : TRUE
         IN  mr[r] * a.weights[r] * a.d * NormProduct(Resources \ {r}, a.total_r, f)
             + ResourceTerms(S \ {r}, mr, a, f)

\* compute_score(p, t, weights, norm, d) in true division, times the
\* positive number d * (product of all norms): the sum over r of
\*   max(...) / norm[r] * weights[r] - len(p) / d
\* mr[r] is the largest amount of r on the nodes and links of the path.
ComputeScore(mr, len, a, f) ==
    ResourceTerms(Resources, mr, a, f)
    - Cardinality(Resources) * len * NormProduct(Resources, a.total_r, f)

\* scores = array([compute_score(p, ...) for p in pptc.all_paths(tc)])
Scores(tc, a, f) ==
    [p \in DOMAIN lens[tc] |-> ComputeScore(a.maxres[tc][p], lens[tc][p], a, f)]

\* flipud(ind)
Flipud(ind) == [j \in DOMAIN ind |-> ind[Len(ind) + 1 - j]]

\* The masks k_resource_paths can leave for tc when every total resource
\* is multiplied by f: the first min(k, n) of flipud(argsort(scores)).
KResourceMasks(tc, a, f) ==
    {KShortestMask(Flipud(ind), num_paths) : ind \in Argsort(Scores(tc, a, f))}

InitRes ==
    /\ pc = "start"
    /\ err = "none"
    /\ lens \in {l \in [TCs -> SeqsUpTo(MaxPaths, MaxLen)] : Len(l[1]) <= MaxPathsFirst}
    /\ pmask = [tc \in TCs |-> Zeros(Len(lens[tc]))]
    /\ num_paths \in 1..MaxK
    /\ inds = [tc \in TCs |-> <<>>]
    /\ IdleIlp
    /\ IdleIter
    /\ IdleSa
    /\ \E mr \in [TCs -> UNION {[1..n -> [Resources -> 0..MaxRes]] : n \in 1..MaxPaths}],
          w \in [Resources -> 1..MaxW], t \in [Resources -> 1..MaxTotal],
          dd \in 1..MaxDiam, f \in 1..MaxFactor :
          /\ \A tc \in TCs : Len(mr[tc]) = Len(lens[tc])
          /\ args = [maxres |-> mr, weights |-> w, total_r |-> t, d |-> dd, factor |-> f]
    /\ result = <<>>

\* k_resource_paths(pptc, num_paths, resource_weights, topo) on a topology
\* whose total resources are total_r times factor.
k_resource_paths ==
    /\ pc = "start"
    /\ \E ind \in PerClass([tc \in TCs |-> Argsort(Scores(tc, args, args.factor))]) :
          /\ inds' = [tc \in TCs |-> Flipud(ind[tc])]
          /\ pmask' = [tc \in TCs |-> PptcMask(KShortestMask(Flipud(ind[tc]), num_paths))]
    /\ pc' = "done"
    /\ UNCHANGED <<callVars, lens, num_paths, err, ilpVars, iterVars, saVars>>

NextRes == k_resource_paths

SpecRes == InitRes /\ [][NextRes]_vars

\* ---------------------------------------------------------------- claims
\* The order the claim C1 describes: ascending length, ties by ascending
\* original index (a stable sort of the lengths).
RECURSIVE StableOrderFrom(_, _)
StableOrderFrom(l, rem) ==
    IF rem = {} THEN <<>>
    ELSE LET least == {p \in rem : \A q \in rem : l[p] <= l[q]}
             first == CHOOSE p \in least : \A q \in least : p <= q
         IN  <<first - 1>> \o StableOrderFrom(l, rem \ {first})

StableOrder(l) == StableOrderFrom(l, DOMAIN l)

\* C1 as stated: after k_shortest_paths the visible paths of every class
\* are exactly the first min(k, n) paths by ascending length, ties broken by
\* ascending original index, and all other paths are masked.
C1_StableTies ==
    pc = "done" =>
        \A tc \in TCs :
            pmask[tc] = KShortestMask(StableOrder(lens[tc]), num_paths)

\* C1 witness: k_shortest_paths ran with 1 <= k < n on a class where a tie
\* at the cut-off was broken against the original index order.
C1_Witness ==
    /\ pc = "done"
    /\ \E tc \in TCs :
          /\ 1 <= num_paths /\ num_paths < Len(lens[tc])
          /\ \E p, q \in DOMAIN pmask[tc] :
                /\ q < p
                /\ lens[tc][p] = lens[tc][q]
                /\ pmask[tc][p] = 0 /\ pmask[tc][q] = 1

\* C2: after choose_rand every class with n > k paths has exactly k visible
\* paths, whatever was drawn, and every class with n <= k has all n visible.
C2_RandCount ==
    pc = "done" =>
        \A tc \in TCs :
            LET n == Len(lens[tc])
            IN  /\ Len(pmask[tc]) = n
                /\ NumVisible(pmask[tc]) = IF n > num_paths THEN num_paths ELSE n

\* C2 witness: choose_rand ran on a PPTC with one class above k (sampled)
\* and one class at or below k (unmasked).
C2_Witness ==
    /\ pc = "done"
    /\ num_paths >= 1
    /\ \E t1, t2 \in TCs :
          /\ Len(lens[t1]) > num_paths /\ NumVisible(pmask[t1]) = num_paths
          /\ Len(lens[t2]) <= num_paths /\ NumVisible(pmask[t2]) = Len(lens[t2])

\* C3 as stated: at every point of a select_sa run, for every traffic
\* class, no two entries of explored[tc] are bitwise-equal masks.
C3_ExploredUnique ==
    \A tc \in TCs :
        \A i, j \in DOMAIN explored[tc] :
            i # j => heap[tc][explored[tc][i]] # heap[tc][explored[tc][j]]

\* C3 witness: with a target of at least one path, the feasibility loop of
\* select_sa made a pass and explored holds the same array twice for some
\* class.
C3_Witness ==
    /\ pc = "feas" /\ sa_k >= 1 /\ num_paths >= 1
    /\ \E tc \in TCs :
          \E i, j \in DOMAIN explored[tc] : i # j /\ explored[tc][i] = explored[tc][j]

\* C4 as stated: in the annealing phase of select_sa a candidate whose
\* objective is strictly lower than that of bestopt (unsolved counting as
\* minus infinity) is never accepted, whatever the draw u in [0, 1): the
\* objective of bestopt never decreases from one annealing iteration to
\* the next.
C4_BestNeverDecreases ==
    [][(pc = "anneal" /\ pc' = "anneal") => ObjState(bestopt') >= ObjState(bestopt)]_vars

\* C4 witness: with a target of at least one path, an annealing iteration
\* has proposed a new mask for some class, solved with it, and left an
\* unsolved optimization as the best one.
C4_Witness ==
    /\ pc = "anneal" /\ sa_k >= 2 /\ num_paths >= 1
    /\ ~bestopt.solved
    /\ \E tc \in TCs :
          /\ bestpaths[tc] >= 2
          /\ bestopt.pptc[tc] # PptcMask(KShortestMask(inds[tc], num_paths))

\* C5 as stated: when select_sa returns, for every traffic class the mask
\* of the returned PPTC equals bestpaths[tc], and that mask is the one the
\* PPTC held for the class when the returned bestopt was solved.
C5_ReturnedMaskIsSolvedMask ==
    (pc = "returned" /\ ret = <<"bestopt", "all_pptc">>) =>
        \A tc \in TCs :
            /\ Visible(pmask[tc]) = Visible(heap[tc][bestpaths[tc]])
            /\ pmask[tc] = bestopt.pptc[tc]

\* C5 witness: with a target of at least one path, select_sa returned a
\* PPTC whose mask for some class is not the mask the returned bestopt was
\* solved with.
C5_Witness ==
    /\ pc = "returned" /\ ret = <<"bestopt", "all_pptc">> /\ num_paths >= 1
    /\ \E tc \in TCs : Visible(pmask[tc]) # Visible(bestopt.pptc[tc])

\* C6 as stated: when select_sa returns with target k, for every traffic
\* class with n candidate paths either all n paths are visible or at most
\* min(k, n) paths of the returned PPTC are visible.
C6_ReturnedCount ==
    (pc = "returned" /\ ret = <<"bestopt", "all_pptc">>) =>
        \A tc \in TCs :
            \/ NumVisible(pmask[tc]) = Len(lens[tc])
            \/ NumVisible(pmask[tc]) <= Min(num_paths, Len(lens[tc]))

\* C6 witness: with a target of at least one path, select_sa returned a
\* solved optimization of the highest objective and a PPTC with more than
\* min(k, n) but fewer than n paths of some class visible.
C6_Witness ==
    /\ pc = "returned" /\ ret = <<"bestopt", "all_pptc">> /\ num_paths >= 1
    /\ bestopt.solved /\ bestopt.obj = MaxObj
    /\ \E tc \in TCs :
          /\ NumVisible(pmask[tc]) > Min(num_paths, Len(lens[tc]))
          /\ NumVisible(pmask[tc]) < Len(lens[tc])

\* C7 as stated: select_sa fails in the feasibility phase with the
\* unsolvable error (SOLException) only if the initial solve and every
\* feasibility re-solve were unsolved; a feasible solve, the last permitted
\* one included, takes select_sa to annealing with that solution as
\* bestopt.
C7_FailsOnlyUnsolved ==
    /\ (pc = "raised" /\ err = "SOLException") => ~opt.solved
    /\ (pc = "anneal" /\ sa_k = 1) => (bestopt.solved /\ bestopt = opt)

\* C7 witness: with a target of at least one path, select_sa raised
\* SOLException out of the feasibility phase although its last re-solve
\* found a solution.
C7_Witness ==
    /\ pc = "raised" /\ err = "SOLException" /\ num_paths >= 1
    /\ opt.solved /\ sa_k = max_iter + 1

\* The positions of the calls named op in the call sequence cs.
CallsOf(cs, op) == {i \in DOMAIN cs : cs[i].op = op}

\* C8: select_ilp calls cap_num_paths exactly once, before solve(), with
\* the value (num_nodes - 1)^2 * k: once solve() has been called there is
\* exactly one cap_num_paths call, it precedes solve(), and its argument is
\* that value; and no second cap_num_paths call is ever made.
C8_CapOnceBeforeSolve ==
    /\ Cardinality(CallsOf(calls, "cap_num_paths")) <= 1
    /\ \A i \in CallsOf(calls, "cap_num_paths") :
          calls[i].arg = (num_nodes - 1) * (num_nodes - 1) * num_paths
    /\ \A s \in CallsOf(calls, "solve") :
          \E i \in CallsOf(calls, "cap_num_paths") : i < s
    /\ pc \in {"returned", "raised"} =>
          /\ Cardinality(CallsOf(calls, "solve")) = 1
          /\ Cardinality(CallsOf(calls, "cap_num_paths")) = 1

\* C8 witness: select_ilp ran to its end on a topology of 3 nodes with
\* num_paths = 2 (cap 8), with solve() called after the cap was set.
C8_Witness ==
    /\ pc \in {"returned", "raised"}
    /\ num_nodes = 3 /\ num_paths = 2
    /\ \E i \in CallsOf(calls, "cap_num_paths") :
          /\ calls[i].arg = 8
          /\ \E s \in CallsOf(calls, "solve") : i < s

C10_AllVisibleAtExit ==
    (/\ pc = "returned"
     /\ iter_i < max_iter /\ diff > epsilon /\ ~(iter_k < mp))
    => \A tc \in TCs : opt.pptc[tc] = Zeros(Len(lens[tc]))

\* C10 witness: select_iterative returned after its loop ended on k alone,
\* and the returned result was solved with a path of some class hidden.
C10_Witness ==
    /\ pc = "returned"
    /\ iter_i < max_iter /\ diff > epsilon /\ ~(iter_k < mp)
    /\ \E tc \in TCs : NumVisible(opt.pptc[tc]) < Len(lens[tc])

\* C11 as stated: the set of paths k_resource_paths leaves visible is the
\* same when every total_resource(r) is multiplied by one common positive
\* factor: what it leaves with the totals multiplied is something it can
\* leave with the totals as they are.
C11_ScaleInvariant ==
    pc = "done" => \A tc \in TCs : pmask[tc] \in KResourceMasks(tc, args, 1)

\* C11 witness: k_resource_paths ran with the totals multiplied on a class
\* whose scores are pairwise different with and without the factor, and
\* left a set of visible paths it cannot leave without the factor.
C11_Witness ==
    /\ pc = "done" /\ args # <<>> /\ args.factor > 1
    /\ \E tc \in TCs :
          /\ num_paths < Len(lens[tc])
          /\ \A p, q \in DOMAIN lens[tc] :
                p # q => /\ Scores(tc, args, 1)[p] # Scores(tc, args, 1)[q]
                         /\ Scores(tc, args, args.factor)[p] #
                               Scores(tc, args, args.factor)[q]
          /\ pmask[tc] \notin KResourceMasks(tc, args, 1)

\* C12 as stated: a call of _expel, _replace or cluster_tcs that receives
\* an unknown mode or method ends with the configuration error, whatever
\* the masks and the other arguments are.
C12_UnknownModeReported ==
    (/\ pc # "start"
     /\ \/ args.fn \in {"_expel", "_replace"} /\ args.mode = "unknown"
        \/ args.fn = "cluster_tcs" /\ args.method = "unknown")
    => err = "InvalidConfigException"

\* C12 witness: _replace received an unknown mode together with a mask that
\* already shows num_paths paths, and returned without any error.
C12_Witness ==
    /\ pc = "done" /\ err = "none"
    /\ args.fn = "_replace" /\ args.mode = "unknown"
    /\ args.num_paths >= 1
    /\ NumVisible(args.mask) >= args.num_paths
    /\ result.mask = args.mask

\* C13 as stated: after the seeding step of select_sa, explored[tc] has
\* exactly one entry for every class, and that entry is bitwise equal to
\* the boolean mask the PPTC holds for the class after k_shortest_paths.
C13_SeedIsMask ==
    (pc = "feas" /\ sa_k = 0)
    => \A tc \in TCs : /\ Len(explored[tc]) = 1
                       /\ heap[tc][explored[tc][1]] = pmask[tc]

\* C13 witness: select_sa seeded explored for a class with more paths than
\* num_paths >= 2, and the paths that read 0 in the seeded entry are not the
\* paths the PPTC shows.
C13_Witness ==
    /\ pc = "feas" /\ sa_k = 0
    /\ \E tc \in TCs :
          /\ num_paths >= 2 /\ num_paths < Len(lens[tc])
          /\ Len(explored[tc]) = 1
          /\ Visible(heap[tc][explored[tc][1]]) # Visible(pmask[tc])

\* The last solve of select_sa followed a step that proposed a new mask for
\* tc: a pass of the feasibility loop, or an annealing iteration that did
\* not skip tc.
Reproposed(tc) ==
    \/ pc = "feas" /\ sa_k >= 1
    \/ pc = "anneal" /\ sa_k = 1 /\ Len(explored[tc]) >= 2
    \/ pc = "anneal" /\ sa_k >= 2 /\ num_paths < PptcLen(tc)

\* C14 as stated: at every solve of select_sa that follows a re-proposal
\* step, the mask of the PPTC the solver sees for a re-proposed class is,
\* as a boolean mask, the last entry of explored[tc].
C14_SolverSeesProposal ==
    \A tc \in TCs :
       Reproposed(tc) => opt.pptc[tc] = PptcMask(heap[tc][LastExplored(tc)])

\* C14 witness: after a pass of the feasibility loop with num_paths >= 1
\* the solver saw, for some class, other visible paths than the ones the
\* last entry of explored shows.
C14_Witness ==
    /\ pc = "feas" /\ sa_k >= 1 /\ num_paths >= 1
    /\ \E tc \in TCs :
          /\ NumVisible(heap[tc][LastExplored(tc)]) = num_paths
          /\ Visible(opt.pptc[tc]) # Visible(heap[tc][LastExplored(tc)])

\* C15 as stated: when an annealing iteration calls _expel in no_flow or
\* inverse_flow mode for a class, the mask it passes (a copy of
\* bestpaths[tc]) has exactly as many visible entries as the class had
\* visible paths in the PPTC when bestopt was solved.
C15_ExpelMaskMatchesBest ==
    (pc = "anneal" /\ sa_k < max_iter /\ ReadsXps(expel_mode))
    => \A tc \in TCs :
          num_paths < PptcLen(tc)
          => NumVisible(heap[tc][bestpaths[tc]]) = NumVisible(bestopt.pptc[tc])

\* C15 witness: an annealing iteration is about to call _expel in a mode
\* that reads the flows, bestopt was solved with num_paths >= 2 visible
\* paths of a class, and bestpaths of that class shows fewer.
C15_Witness ==
    /\ pc = "anneal" /\ sa_k < max_iter /\ ReadsXps(expel_mode)
    /\ bestopt.solved
    /\ \E tc \in TCs :
          /\ num_paths >= 2 /\ num_paths < PptcLen(tc)
          /\ NumVisible(bestopt.pptc[tc]) = num_paths
          /\ NumVisible(heap[tc][bestpaths[tc]]) < num_paths

\* _in(m, explored) in a single call of _replace.
InExplored(m) == In(m, args.explored, args.aliased)

\* The masks ReplaceMode.random can draw in a single call of _replace.
Candidates ==
    {SetTo(args.mask, c, 0) :
        c \in Choice(Unused(args.mask), ReplaceLen(args.mask, args.num_paths))}

\* The call of _replace got past its two early returns.
PastEarlyReturns ==
    /\ ReplaceLen(args.mask, args.num_paths) > 0
    /\ Cardinality(Unused(args.mask)) >= ReplaceLen(args.mask, args.num_paths)

\* C16 as stated: replace mode random retries only while the drawn mask is
\* in explored and at most max_tries times: it retried only if some
\* candidate is in explored, and the mask it leaves is in explored only
\* after max_tries retries.
C16_RandomRetriesWhileExplored ==
    (pc = "done" /\ PastEarlyReturns)
    => /\ result.tries <= MaxTries
       /\ result.tries > 0 => \E m \in Candidates : InExplored(m)
       /\ InExplored(result.mask) => result.tries = MaxTries

\* C16 witness: no candidate mask is in explored, so the first draw is a
\* new mask, and _replace still drew max_tries more times.
C16_Witness ==
    /\ pc = "done" /\ PastEarlyReturns
    /\ args.num_paths >= 1
    /\ \A m \in Candidates : ~InExplored(m)
    /\ result.tries = MaxTries

\* The combinations of masked indices whose mask is not in explored, in a
\* single call of _replace.
FreshCombinations ==
    {c \in Choice(Unused(args.mask), ReplaceLen(args.mask, args.num_paths)) :
        ~InExplored(SetTo(args.mask, c, 0))}

\* C17: replace mode next_sorted enables the first combination of
\* replace_len masked indices, in ascending lexicographic order, whose mask
\* is not in explored; if there is such a combination the mask it leaves is
\* not in explored; only if every combination gives an explored mask does
\* it enable a drawn combination.
C17_NextSortedFirstFresh ==
    (pc = "done" /\ args.fn = "_replace" /\ args.mode = "next_sorted" /\ PastEarlyReturns)
    => IF FreshCombinations # {}
       THEN /\ result.mask = SetTo(args.mask, LexFirst(FreshCombinations), 0)
            /\ ~InExplored(result.mask)
       ELSE result.mask \in Candidates

\* C17 witness: next_sorted passed over the first combination, whose mask
\* is in explored, and enabled a later one.
C17_Witness ==
    /\ pc = "done" /\ args.fn = "_replace" /\ args.mode = "next_sorted" /\ PastEarlyReturns
    /\ FreshCombinations # {}
    /\ LET first == LexFirst(Choice(Unused(args.mask),
                                   ReplaceLen(args.mask, args.num_paths)))
       IN  /\ first \notin FreshCombinations
           /\ result.mask # SetTo(args.mask, first, 0)
    /\ ~InExplored(result.mask)

\* The positions of the paths a tree can return.
TreeIndices(t) ==
    UNION {{t.buckets[b][j] + 1 : j \in DOMAIN t.buckets[b]} : b \in DOMAIN t.buckets}

\* C18 as stated: in pathtree mode, for every path tree and every mask with
\* at least replace_len masked paths, _replace terminates: every collection
\* of replace_len distinct indices can finish (the tree is not exhausted
\* and holds enough indices for it), and at most max_tries retries are made.
C18_PathtreeTerminates ==
    /\ err # "StopIteration"
    /\ pc = "collect"
       => /\ result.tries <= MaxTries
          /\ Cardinality(result.comb \cup TreeIndices(result.tree))
                >= ReplaceLen(args.mask, args.num_paths)

\* C18 witness: the first collection of _replace has called next(tree)
\* MaxCalls times on a tree with buckets, has seen every index the tree
\* holds, and still lacks indices.
C18_Witness ==
    /\ pc = "collect" /\ result.tries = 0 /\ result.calls = MaxCalls
    /\ result.tree.buckets # <<>>
    /\ TreeIndices(result.tree) \subseteq result.comb
    /\ Cardinality(result.comb) < ReplaceLen(args.mask, args.num_paths)

\* C19: the i-th call of next() on a path tree with B >= 1 buckets, counted
\* from 0, returns the element at position floor(i / B) mod |bucket| of
\* bucket number i mod B.
C19_RoundRobin ==
    (pc \in {"collect", "done"} /\ result.calls >= 1)
    => LET i      == result.calls - 1
           B      == Len(args.tree.buckets)
           bucket == args.tree.buckets[(i % B) + 1]
       IN  result.val = bucket[((i \div B) % Len(bucket)) + 1]

\* C19 witness: next() was called on a tree of two buckets of different
\* sizes often enough for the larger bucket to start over.
C19_Witness ==
    /\ pc = "collect" /\ result.calls >= 1
    /\ Len(args.tree.buckets) = 2
    /\ Len(args.tree.buckets[1]) < Len(args.tree.buckets[2])
    /\ result.calls > 2 * Len(args.tree.buckets[2])

\* C20: after _expel in no_flow mode, the path at position p is visible
\* exactly if it was visible before the call and the column of xps[tcid]
\* numbered by the count of paths visible before the call at smaller
\* positions has a non-zero x in some epoch; masked paths stay masked.
C20_NoFlow ==
    (pc = "done" /\ args.fn = "_expel" /\ args.mode = "no_flow")
    => \A p \in DOMAIN args.mask :
          /\ (result.mask[p] = 0)
                = (/\ args.mask[p] = 0
                   /\ Cardinality({q \in 1..(p - 1) : args.mask[q] = 0}) + 1 \in args.x)
          /\ args.mask[p] # 0 => result.mask[p] = args.mask[p]

\* C20 witness: _expel ran in no_flow mode on a mask whose first path was
\* masked and whose two other paths were visible; it kept the one with flow
\* and masked the one without.
C20_Witness ==
    /\ pc = "done" /\ args.fn = "_expel" /\ args.mode = "no_flow"
    /\ args.mask = <<1, 0, 0>> /\ args.ncols = 2
    /\ Cardinality(args.x) = 1
    /\ NumVisible(result.mask) = 1

\* C21 as stated: the annealing phase of select_sa performs exactly
\* max_iter iterations, each with one solve: when select_sa returns, the
\* iterations done (sa_k counts from 1, one solve per sa_anneal_step) are
\* max_iter.
C21_AnnealIterations ==
    (pc = "returned" /\ ret = <<"bestopt", "all_pptc">>) => sa_k - 1 = max_iter

\* C21 witness: select_sa returned with max_iter = MaxIter >= 2 after
\* max_iter - 1 annealing iterations.
C21_Witness ==
    /\ pc = "returned" /\ ret = <<"bestopt", "all_pptc">>
    /\ max_iter = MaxIter /\ max_iter >= 2
    /\ sa_k = max_iter
    /\ \E tc \in TCs : num_paths < PptcLen(tc) /\ Len(explored[tc]) = max_iter

\* C22 as stated: in the feasibility phase of select_sa the masks are
\* re-proposed and the solver invoked again at most max_iter times after
\* the initial solve (sa_k counts the passes).
C22_FeasRetriesBounded ==
    pc = "feas" => sa_k <= max_iter

\* C22 witness: the feasibility loop has made max_iter + 1 passes, with
\* max_iter >= 1 and num_paths >= 1.
C22_Witness ==
    /\ pc = "feas" /\ max_iter >= 1 /\ num_paths >= 1
    /\ sa_k = max_iter + 1
    /\ \A tc \in TCs : Len(explored[tc]) = max_iter + 2

\* The positions of sc by descending score, equal scores by ascending
\* original index (as indices from 0).
RECURSIVE DescendingOrderFrom(_, _)
DescendingOrderFrom(sc, rem) ==
    IF rem = {} THEN <<>>
    ELSE LET best  == {p \in rem : \A q \in rem : sc[p] >= sc[q]}
             first == CHOOSE p \in best : \A q \in best : p <= q
         IN  <<first - 1>> \o DescendingOrderFrom(sc, rem \ {first})

\* C23 as stated: after k_resource_paths the visible paths of every class
\* are the first min(k, n) candidates by descending resource score, paths
\* of equal score in ascending original index.
C23_DescendingStableTies ==
    pc = "done" =>
        \A tc \in TCs :
            pmask[tc] = KShortestMask(
                DescendingOrderFrom(Scores(tc, args, args.factor), DOMAIN lens[tc]),
                num_paths)

\* C23 witness: k_resource_paths ran with 1 <= k < n on a class where two
\* paths have the same score, and it left the one with the larger original
\* index visible and the other hidden.
C23_Witness ==
    /\ pc = "done" /\ args # <<>>
    /\ \E tc \in TCs :
          /\ 1 <= num_paths /\ num_paths < Len(lens[tc])
          /\ \E p, q \in DOMAIN pmask[tc] :
                /\ q < p
                /\ Scores(tc, args, args.factor)[p] = Scores(tc, args, args.factor)[q]
                /\ pmask[tc][p] = 0 /\ pmask[tc][q] = 1

\* C24 as stated: for every replace mode, when the mask _replace receives
\* has v <= k visible paths and at least k - v masked paths, the mask it
\* leaves has exactly k visible paths.
C24_ReplaceGivesK ==
    (/\ pc = "done" /\ args.fn = "_replace" /\ args.mode \in ReplaceModes
     /\ NumVisible(args.mask) <= args.num_paths
     /\ Len(args.mask) - NumVisible(args.mask) >= args.num_paths - NumVisible(args.mask))
    => NumVisible(result.mask) = args.num_paths

\* C24 witness: _replace in pathtree mode had to enable paths (k > v, enough
\* masked paths), drew from the tree, and left fewer than k paths visible.
C24_Witness ==
    /\ pc = "done" /\ args.fn = "_replace" /\ args.mode = "pathtree"
    /\ PastEarlyReturns
    /\ NumVisible(result.mask) < args.num_paths

\* C25 as stated: for every replace mode, a path that is visible in the
\* mask _replace receives is visible in the mask it leaves.
C25_ReplaceKeepsVisible ==
    (pc = "done" /\ args.fn = "_replace" /\ args.mode \in ReplaceModes)
    => \A p \in DOMAIN args.mask : args.mask[p] = 0 => result.mask[p] = 0

\* C25 witness: _replace in pathtree mode, on a mask array that is not
\* itself in explored, left a path masked that was visible on entry.
C25_Witness ==
    /\ pc = "done" /\ args.fn = "_replace" /\ args.mode = "pathtree"
    /\ ~args.aliased
    /\ PastEarlyReturns
    /\ \E p \in DOMAIN args.mask : args.mask[p] = 0 /\ result.mask[p] = 1

\* C26 as stated: with a valid sort_mode, select_iterative invokes the
\* solver at least once and ends either by returning the result of a solved
\* solver or by raising the unsolvable error, never by another failure.
C26_IterativeEnds ==
    (pc \in {"raised", "returned"} /\ sort_mode = "len")
    => /\ opt.bound
       /\ \/ pc = "returned" /\ err = "none" /\ opt.solved
          \/ pc = "raised" /\ err = "SOLException"

\* C26 witness: select_iterative was called with a valid sort_mode and
\* max_iter >= 1 on classes of at most InitialK candidate paths; its loop
\* never ran, no solver was invoked, and it ended with a failure that is
\* not the unsolvable error.
C26_Witness ==
    /\ pc = "raised" /\ sort_mode = "len"
    /\ max_iter >= 1 /\ mp <= InitialK
    /\ iter_i = 0 /\ ~opt.bound
    /\ err = "UnboundLocalError"

=============================================================================
